---- MODULE Spec2Model ----
(***************************************************************************)
(* Model of packages/nativescript-auth0/common.ts (class Auth0Common):     *)
(* the PKCE sign-in / sign-up / log-out flows, the access-token refresh    *)
(* and the five storage keys they manage.                                  *)
(*                                                                         *)
(* JavaScript runs one synchronous segment at a time; a handler is split   *)
(* at the awaits that wait for the outside world (the in-app browser, the  *)
(* HTTP transport).  Each action below is one such segment of one caller.  *)
(***************************************************************************)
EXTENDS Integers, Sequences, FiniteSets, TLC

VARIABLES
    storage,    \* the five keys of SecureStorage / ApplicationSettings
    config,     \* this.config.auth0Config (NoConfig before setUp)
    verifier,   \* this.verifier (Null before setUp)
    isAndroid,  \* the platform constant imported from @nativescript/core
    now,        \* Date.now(), in abstract ticks
    proc        \* per caller: position in its handler, locals, observations

vars == <<storage, config, verifier, isAndroid, now, proc>>

\* ------------------------------------------------------------------ bounds
MaxTime == 3

\* ------------------------------------------------------------------ values
Null == "null"            \* null / absent storage key
Undefined == "undefined"  \* a property the object does not have

\* Numbers are tagged, so that an absent number and NaN are values too.
Num(n) == [tag |-> "num", n |-> n]
NoNum == [tag |-> "absent", n |-> 0]   \* undefined
NaN == [tag |-> "nan", n |-> 0]        \* Date arithmetic on an undefined expires_in

Procs == {"p1", "p2"}
Callers == {"p1"}

AccessTokens == {"a1", "a2"}
RefreshTokens == {"r1", "r2"}
ExpiresIn == {1}
Verifiers == {"v1", "v2"}
UserInfos == {"u1"}
LoginHints == {Null, "user"}

\* JavaScript truthiness of a string-or-absent value, and of a number.
Truthy(x) == x \notin {Null, Undefined, ""}
TruthyNum(x) == x.tag = "num" /\ x.n # 0

\* The token sets a token endpoint or a setTokens caller can hand over.
TokenSets ==
    [json : {TRUE}, access_token : AccessTokens,
     refresh_token : RefreshTokens \cup {Undefined},
     expires_in : {Num(e) : e \in ExpiresIn}]

\* The body of an error answer: a JSON object that carries no token.
ErrorBody ==
    [json |-> TRUE, access_token |-> Undefined, refresh_token |-> Undefined,
     expires_in |-> NoNum]

\* A body that is not JSON: content.toJSON() throws on it.
NotJson == [ErrorBody EXCEPT !.json = FALSE]

\* What Http.request can produce for a token request: a rejected promise
\* (transport failure) or a response of any status; it resolves for non-2xx too.
TokenResponses ==
    {[kind |-> "fail", status |-> 0, body |-> NotJson]}
    \cup [kind : {"resp"}, status : {200}, body : TokenSets]
    \cup [kind : {"resp"}, status : {403}, body : {ErrorBody, NotJson}]

UserInfoResponses ==
    {[kind |-> "fail", status |-> 0, user |-> Null],
     [kind |-> "resp", status |-> 401, user |-> Null]}
    \cup [kind : {"resp"}, status : {200}, user : UserInfos]

\* Callback URLs, as sequences of pieces with "=" a piece of its own.
UrlCode == <<"app://cb", "?code", "=", "c1">>
UrlEmptyCode == <<"app://cb", "?code", "=">>
UrlNoQuery == <<"app://cb">>
UrlPasswordless == <<"app://cb", "/passwordless", "?login_hint", "=", "user">>
NoUrl == <<>>      \* response.url undefined
CallbackUrls == {UrlCode, UrlEmptyCode, UrlNoQuery, UrlPasswordless}

\* AuthSessionResult of InAppBrowser.openAuth, or a rejected promise ("throw").
BrowserResults ==
    [type : {"success"}, url : CallbackUrls \cup {NoUrl}]
    \cup [type : {"cancel", "dismiss", "throw"}, url : {NoUrl}]

\* config.auth0Config; `defined` is FALSE while this.config is still undefined.
ValidConfig ==
    [defined |-> TRUE, domain |-> "t.auth0.com", clientId |-> "c", audience |-> "a",
     redirectUri |-> "app://cb", scope |-> Undefined]
NoConfig ==
    [defined |-> FALSE, domain |-> Undefined, clientId |-> Undefined,
     audience |-> Undefined, redirectUri |-> Undefined, scope |-> Undefined]
Configs ==
    {ValidConfig,
     [ValidConfig EXCEPT !.domain = Undefined],
     [ValidConfig EXCEPT !.clientId = ""],
     [ValidConfig EXCEPT !.audience = Undefined],
     [ValidConfig EXCEPT !.redirectUri = ""]}

EmptyStorage ==
    [refresh_token |-> Null, access_token |-> Null, access_token_expire |-> NoNum,
     user_info |-> Null, user_logged_in |-> Null]

\* ------------------------------------------------------- storage helpers
\* Mutant of clearStorage: the remove of the logged-in flag is forgotten.
clearStorageKeepsFlag(st) == [EmptyStorage EXCEPT !.user_logged_in = st.user_logged_in]

\* common.ts 331-337: the five removes of clearStorage.
clearStorage(st) == EmptyStorage

\* common.ts 338: clearStorage emits '' on accessToken$.
clearStorageEmit == ""

\* Mutant of storeRefreshToken: the refresh token is written even when the set has none.
storeRefreshTokenAlways(st, json) ==
    [st EXCEPT !.refresh_token = IF json.refresh_token = Undefined THEN Null
                                 ELSE json.refresh_token]

\* common.ts 254-264
storeRefreshToken(st, json) ==
    IF ~Truthy(json.refresh_token) THEN st
    ELSE [st EXCEPT !.refresh_token = json.refresh_token]

\* common.ts 247-249: expireDate.setSeconds(getSeconds() + expireSeconds).getTime()
expireDate(t, expireSeconds) ==
    IF expireSeconds.tag = "num" THEN Num(t + expireSeconds.n) ELSE NaN

\* common.ts 236-252
storeAccessToken(st, json, t) ==
    IF ~Truthy(json.access_token) THEN st
    ELSE [st EXCEPT !.access_token = json.access_token,
                    !.access_token_expire = expireDate(t, json.expires_in)]

\* Mutant of storedTokenValid: the token is taken as expired at its expiry instant.
storedTokenValidStrict(st, t) ==
    /\ Truthy(st.access_token)
    /\ TruthyNum(st.access_token_expire)
    /\ t < st.access_token_expire.n

\* common.ts 172: storedToken && tokenExpire && Date.now() <= tokenExpire
storedTokenValid(st, t) ==
    /\ Truthy(st.access_token)
    /\ TruthyNum(st.access_token_expire)
    /\ t <= st.access_token_expire.n

\* ----------------------------------------------------------- URL helpers
\* common.ts 271: base64url(SHA256(verifier)), a function of the verifier.
challengeOf(v) ==
    CASE v = "v1" -> "S256(v1)"
      [] v = "v2" -> "S256(v2)"
      [] OTHER -> "S256(undefined)"

\* common.ts 341-366: null and undefined parameters are left out of the query.
\* The query is the set of its key/value pairs.
objectToQueryParams(params) ==
    {<<k, params[k]>> : k \in {x \in DOMAIN params : params[x] \notin {Null, Undefined}}}

NoAuthUrl == [endpoint |-> "none", domain |-> Undefined, query |-> {}]

\* The value of a query parameter, Null when the query does not carry it.
queryGet(url, key) ==
    IF \E kv \in url.query : kv[1] = key
    THEN (CHOOSE kv \in url.query : kv[1] = key)[2]
    ELSE Null

\* Mutant of prepareSignInAuthUrl: the required fields are not looked at.
prepareSignInAuthUrlNoCheck(cfg, ver, loginHint, connection, screenHint) ==
    IF ~cfg.defined THEN [thrown |-> TRUE, url |-> NoAuthUrl]
    ELSE [thrown |-> FALSE,
          url |-> [endpoint |-> "authorize", domain |-> cfg.domain,
                   query |-> objectToQueryParams(
                      [client_id |-> cfg.clientId, redirect_uri |-> cfg.redirectUri,
                       code_challenge |-> challengeOf(ver)])]]

\* common.ts 270-293.  [thrown, url]
prepareSignInAuthUrl(cfg, ver, loginHint, connection, screenHint) ==
    IF ~cfg.defined THEN [thrown |-> TRUE, url |-> NoAuthUrl]
    ELSE IF ~Truthy(cfg.audience) \/ ~Truthy(cfg.clientId) \/ ~Truthy(cfg.redirectUri)
    THEN [thrown |-> TRUE, url |-> NoAuthUrl]
    ELSE [thrown |-> FALSE,
          url |-> [endpoint |-> "authorize", domain |-> cfg.domain,
                   query |-> objectToQueryParams(
                      [audience |-> cfg.audience,
                       scope |-> IF Truthy(cfg.scope) THEN cfg.scope
                                 ELSE "offline_access openid profile email",
                       response_type |-> "code",
                       client_id |-> cfg.clientId,
                       redirect_uri |-> cfg.redirectUri,
                       code_challenge |-> challengeOf(ver),
                       code_challenge_method |-> "S256",
                       login_hint |-> IF Truthy(loginHint) THEN loginHint ELSE Null,
                       connection |-> IF Truthy(connection) THEN connection ELSE Null,
                       screen_hint |-> IF Truthy(screenHint) THEN screenHint ELSE Null])]]

\* common.ts 266-268
prepareSignUpAuthUrl(cfg, ver, loginHint) ==
    prepareSignInAuthUrl(cfg, ver, loginHint, Null, "signup")

\* common.ts 295-308
prepareLogOutAuthUrl(cfg) ==
    IF ~cfg.defined THEN [thrown |-> TRUE, url |-> NoAuthUrl]
    ELSE IF ~Truthy(cfg.clientId) \/ ~Truthy(cfg.redirectUri)
    THEN [thrown |-> TRUE, url |-> NoAuthUrl]
    ELSE [thrown |-> FALSE,
          url |-> [endpoint |-> "logout", domain |-> cfg.domain,
                   query |-> objectToQueryParams(
                      [client_id |-> cfg.clientId, returnTo |-> cfg.redirectUri])]]

\* String.prototype.includes on a URL, piecewise.
includes(url, piece) == \E i \in DOMAIN url : url[i] = piece

\* common.ts 325: response.url.split('=')[1] -- the pieces between the first
\* "=" and the next one; Null (undefined) when the URL holds no "=".
splitAtEquals1(url) ==
    LET eqs == {i \in DOMAIN url : url[i] = "="}
    IN  IF eqs = {} THEN [undef |-> TRUE, str |-> <<>>]
        ELSE LET first == CHOOSE i \in eqs : \A j \in eqs : i <= j
                 later == {i \in eqs : i > first}
                 stop == IF later = {} THEN Len(url) + 1
                         ELSE CHOOSE i \in later : \A j \in later : i <= j
             IN  [undef |-> FALSE, str |-> SubSeq(url, first + 1, stop - 1)]

\* !code on the result of the split
TruthyCode(c) == ~c.undef /\ c.str # <<>>

\* common.ts 316-318: new URLSearchParams(urlObj.search).get('login_hint')
loginHintOf(url) ==
    IF \E i \in DOMAIN url : url[i] = "?login_hint" /\ i + 2 <= Len(url) /\ url[i + 1] = "="
    THEN url[(CHOOSE i \in DOMAIN url : url[i] = "?login_hint") + 2]
    ELSE Null

\* ------------------------------------------------------------ caller state
NoRequest ==
    [grant_type |-> "none", code |-> <<>>, code_verifier |-> Null, refresh_token |-> Null]
NoResponse == [kind |-> "none", status |-> 0]

Fresh ==
    [pc |-> "idle", op |-> "none", force |-> FALSE,
     url |-> NoAuthUrl,   \* the URL last handed to the browser or to Utils.openUrl
     avail |-> "none",    \* what InAppBrowser.isAvailable() answered
     br |-> "none",       \* the type of the browser result last received
     req |-> NoRequest,   \* the token request last sent
     http |-> NoResponse, \* kind and status of the token response last received
     bearer |-> Null,     \* the token of the userinfo request last sent
     nOpen |-> 0,         \* browser sessions opened by this call
     nUrlOpen |-> 0,      \* Utils.openUrl calls of this call
     persisted |-> "none", \* refresh_token of the token set this call handed to
                          \* the store functions ("none": it handed none)
     nGet |-> 0,          \* getAccessToken invocations of this call
     nFetch |-> 0,        \* fetchAccessToken invocations of this call
     nTokReq |-> 0,       \* token-endpoint requests sent by this call
     nUserReq |-> 0,      \* userinfo requests sent by this call
     emits |-> <<>>,      \* values this call put on accessToken$
     ret |-> [kind |-> "none", val |-> Null]]

Idle(p) == proc[p].pc = "idle"

\* The caller's record when it calls handler `o`.
Started(p, o) == [Fresh EXCEPT !.op = o]

\* The handler ends: its locals (the URL, the request) are gone, what it did stays.
Return(r, v) ==
    [r EXCEPT !.pc = "idle", !.ret = [kind |-> "return", val |-> v],
              !.url = NoAuthUrl, !.req = NoRequest]
Throw(r, e) ==
    [r EXCEPT !.pc = "idle", !.ret = [kind |-> "throw", val |-> e],
              !.url = NoAuthUrl, !.req = NoRequest]
Emit(r, v) == [r EXCEPT !.emits = Append(@, v)]

\* A step's outcome: the storage and the caller's record after it.
Outcome(st, r) == [st |-> st, r |-> r]

Apply(p, out) ==
    /\ storage' = out.st
    /\ proc' = [proc EXCEPT ![p] = out.r]

Init ==
    /\ storage = EmptyStorage
    /\ config = NoConfig
    /\ verifier = Null
    /\ isAndroid \in BOOLEAN
    /\ now = 1
    /\ proc = [p \in Procs |-> Fresh]

\* Time passes.
Tick ==
    /\ now < MaxTime
    /\ now' = now + 1
    /\ UNCHANGED <<storage, config, verifier, isAndroid, proc>>

\* ------------------------------------------------------- setUp, setTokens
\* common.ts 21-31: Math.random picks the verifier.
getRandomValues == Verifiers

\* common.ts 38-47.  On Android the pre-warm builds the authorize URL, after
\* config and verifier have been assigned.
setUp(p, cfg, v) ==
    /\ Idle(p)
    /\ config' = cfg
    /\ verifier' = v
    /\ proc' = [proc EXCEPT ![p] =
          IF isAndroid /\ prepareSignInAuthUrl(cfg, v, Null, Null, Null).thrown
          THEN Throw(Started(p, "setUp"), "ConfigError")
          ELSE Return(Started(p, "setUp"), "this")]
    /\ UNCHANGED <<storage, isAndroid, now>>

\* What a caller can pass to setTokens: the declared type has no expires_in.
SetTokensInputs ==
    TokenSets
    \cup [json : {TRUE}, access_token : {"a1"}, refresh_token : {"r1", ""},
          expires_in : {NoNum}]
    \cup [json : {TRUE}, access_token : {""}, refresh_token : {"r2"},
          expires_in : {Num(e) : e \in ExpiresIn}]

\* common.ts 33-36
setTokensStore(st, json, t) == storeAccessToken(storeRefreshToken(st, json), json, t)

setTokens(p, json) ==
    /\ Idle(p)
    /\ Apply(p, Outcome(setTokensStore(storage, json, now),
                        Return([Started(p, "setTokens") EXCEPT !.persisted = json.refresh_token],
                               Undefined)))
    /\ UNCHANGED <<config, verifier, isAndroid, now>>

\* ---------------------------------------------------------- signIn, signUp
\* Mutant of signInCatch: the error is re-raised without clearing the storage.
signInCatchNoClear(st, r) == Outcome(st, Throw(r, "Error during sign in"))

\* common.ts 80-87: the catch block of signIn.
signInCatch(st, r) ==
    Outcome(clearStorage(st), Throw(Emit(r, clearStorageEmit), "Error during sign in"))

\* Mutant of signUpFail: signUp clears the storage on failure, as signIn does.
signUpFailClears(st, r) ==
    Outcome(clearStorage(st), Throw(Emit(r, clearStorageEmit), "Error"))

\* signUp (common.ts 92-102) has no catch block: the error propagates.
signUpFail(st, r) == Outcome(st, Throw(r, "Error"))

\* A throw inside the sign-in or the sign-up flow.
flowFail(st, r) == IF r.op = "signIn" THEN signInCatch(st, r) ELSE signUpFail(st, r)

\* common.ts 311, 320: InAppBrowser.openAuth(url, redirectUri)
openAuth(r, u, next) == [r EXCEPT !.pc = next, !.url = u, !.nOpen = @ + 1]

\* common.ts 71-73
signIn(p, loginHint, connection) ==
    /\ Idle(p)
    /\ LET u == prepareSignInAuthUrl(config, verifier, loginHint, connection, Null)
           r == Started(p, "signIn")
       IN  Apply(p, IF u.thrown THEN flowFail(storage, r)
                    ELSE Outcome(storage, openAuth(r, u.url, "browser")))
    /\ UNCHANGED <<config, verifier, isAndroid, now>>

\* common.ts 92-93
signUp(p, loginHint) ==
    /\ Idle(p)
    /\ LET u == prepareSignUpAuthUrl(config, verifier, loginHint)
           r == Started(p, "signUp")
       IN  Apply(p, IF u.thrown THEN flowFail(storage, r)
                    ELSE Outcome(storage, openAuth(r, u.url, "browser")))
    /\ UNCHANGED <<config, verifier, isAndroid, now>>

\* common.ts 323-328: the code fetchCodeInAppBrowser returns ([undef, str]; false
\* is the undefined code, both are falsy).
codeOf(res) ==
    IF res.type = "success" /\ res.url # NoUrl THEN splitAtEquals1(res.url)
    ELSE [undef |-> TRUE, str |-> <<>>]

\* common.ts 212-229: fetchRefreshToken up to the request it sends.
sendCodeExchange(st, r, code, ver) ==
    IF ~TruthyCode(code) \/ ~Truthy(ver) THEN flowFail(st, r)
    ELSE Outcome(st, [r EXCEPT !.pc = "code_http", !.nTokReq = @ + 1,
                               !.req = [grant_type |-> "authorization_code",
                                        code |-> code.str, code_verifier |-> ver,
                                        refresh_token |-> Null]])

\* Mutant of afterBrowser: the `if (!code) return false` is missing.
afterBrowserNoCodeCheck(st, r, res, ver) == sendCodeExchange(st, r, codeOf(res), ver)

\* common.ts 75-79 (signIn), 95-99 (signUp): after fetchCodeInAppBrowser returned.
afterBrowser(st, r, res, ver) ==
    LET code == codeOf(res)
    IN  IF ~TruthyCode(code) THEN Outcome(st, Return(r, "false"))
        ELSE sendCodeExchange(st, r, code, ver)

\* common.ts 311-321: the first browser session ends.
browserDone(p, res) ==
    /\ proc[p].pc = "browser"
    /\ LET r == [proc[p] EXCEPT !.br = res.type]
       IN  Apply(p,
             IF res.type = "throw" THEN flowFail(storage, r)
             ELSE IF res.type = "success" /\ includes(res.url, "/passwordless")
             THEN LET u == prepareSignInAuthUrl(config, verifier,
                                                loginHintOf(res.url), "email", Null)
                  IN  IF u.thrown THEN flowFail(storage, r)
                      ELSE Outcome(storage, openAuth(r, u.url, "browser2"))
             ELSE afterBrowser(storage, r, res, verifier))
    /\ UNCHANGED <<config, verifier, isAndroid, now>>

\* common.ts 320-328: the passwordless browser session ends.
browser2Done(p, res) ==
    /\ proc[p].pc = "browser2"
    /\ LET r == [proc[p] EXCEPT !.br = res.type]
       IN  Apply(p, IF res.type = "throw" THEN flowFail(storage, r)
                    ELSE afterBrowser(storage, r, res, verifier))
    /\ UNCHANGED <<config, verifier, isAndroid, now>>

\* common.ts 231-233, then 89 / 101: the answer to the code exchange.
codeExchangeDone(p, resp) ==
    /\ proc[p].pc = "code_http"
    /\ LET r == [proc[p] EXCEPT !.http = [kind |-> resp.kind, status |-> resp.status]]
       IN  Apply(p,
             IF resp.kind = "fail" \/ ~resp.body.json THEN flowFail(storage, r)
             ELSE Outcome(storeAccessToken(storeRefreshToken(storage, resp.body),
                                           resp.body, now),
                          Return([r EXCEPT !.persisted = resp.body.refresh_token],
                                 "true")))
    /\ UNCHANGED <<config, verifier, isAndroid, now>>

\* ------------------------------------------------------------------ logOut
\* What the logout browser session can answer (its URL is not read).
LogOutResults == {res \in BrowserResults : res.url = NoUrl}

\* common.ts 121-127
logOutCatch(st, r) == Outcome(st, Throw(r, "Something happened while logging out"))

\* common.ts 118-120
logOutClear(st, r) ==
    Outcome(clearStorage(st), Return(Emit(r, clearStorageEmit), "true"))

\* common.ts 104-109: up to the await of InAppBrowser.isAvailable().
logOut(p) ==
    /\ Idle(p)
    /\ LET u == prepareLogOutAuthUrl(config)
           r == Started(p, "logOut")
       IN  Apply(p, IF u.thrown THEN Outcome(storage, Throw(r, "Error"))
                    ELSE Outcome(storage, [r EXCEPT !.pc = "lo_avail", !.url = u.url]))
    /\ UNCHANGED <<config, verifier, isAndroid, now>>

\* common.ts 109-120: isAvailable() answered ("yes", "no") or rejected ("throw").
logOutAvailable(p, a) ==
    /\ proc[p].pc = "lo_avail"
    /\ LET r == [proc[p] EXCEPT !.avail = a]
       IN  Apply(p,
             CASE a = "throw" -> logOutCatch(storage, r)
               [] a = "yes" -> Outcome(storage, openAuth(r, r.url, "lo_browser"))
               [] OTHER -> logOutClear(storage, [r EXCEPT !.nUrlOpen = @ + 1]))
    /\ UNCHANGED <<config, verifier, isAndroid, now>>

\* Mutant of logOutBrowserDone: a cancelled session logs out like any other.
logOutBrowserDoneIgnoresCancel(p, res) ==
    /\ proc[p].pc = "lo_browser"
    /\ LET r == [proc[p] EXCEPT !.br = res.type]
       IN  Apply(p, IF res.type = "throw" THEN logOutCatch(storage, r)
                    ELSE logOutClear(storage, r))
    /\ UNCHANGED <<config, verifier, isAndroid, now>>

\* common.ts 110-120: the logout browser session ends.
logOutBrowserDone(p, res) ==
    /\ proc[p].pc = "lo_browser"
    /\ LET r == [proc[p] EXCEPT !.br = res.type]
       IN  Apply(p,
             CASE res.type = "throw" -> logOutCatch(storage, r)
               [] res.type = "cancel" -> Outcome(storage, Return(r, "false"))
               [] OTHER -> logOutClear(storage, r))
    /\ UNCHANGED <<config, verifier, isAndroid, now>>

\* ------------------------------------- getAccessToken, loggedIn, getUserInfo
\* JSON.stringify / JSON.parse of the user-info object (common.ts 155, 132).
stringify(u) == IF u = "u1" THEN "{u1}" ELSE "{}"
parse(str) == IF str = "{u1}" THEN "u1" ELSE "empty"

\* common.ts 135-143: the userinfo request, sent once the token is there.
sendUserInfo(st, r, token) ==
    Outcome(st, [r EXCEPT !.pc = "ui_http", !.nUserReq = @ + 1, !.bearer = token])

\* What the caller of getAccessToken does with its result: common.ts 176-179
\* (getAccessToken itself), 57-68 (loggedIn), 136-143 (getUserInfo).
accessTokenReturned(st, r, token) ==
    CASE r.op = "loggedIn" ->
            IF Truthy(token)
            THEN Outcome([st EXCEPT !.user_logged_in = "true"], Return(r, "true"))
            ELSE Outcome(st, Return(r, "false"))
      [] r.op = "getUserInfo" -> sendUserInfo(st, r, token)
      [] OTHER -> Outcome(st, Return(r, token))

\* Mutant of accessTokenThrew: loggedIn lets the error through.
accessTokenThrewNoCatch(st, r) ==
    Outcome(st, Throw(r, "Issue when fetching an access token using a refresh token"))

\* getAccessToken threw: loggedIn swallows it (common.ts 64-68), the others do not.
accessTokenThrew(st, r) ==
    IF r.op = "loggedIn" THEN Outcome(st, Return(r, "false"))
    ELSE Outcome(st, Throw(r, "Issue when fetching an access token using a refresh token"))

\* common.ts 166-168
removeAccessToken(st, force) == IF force THEN [st EXCEPT !.access_token = Null] ELSE st

\* Mutant of fetchAccessToken: the request is sent without looking for a refresh token.
fetchAccessTokenNoCheck(st, r0, cfg) ==
    IF ~cfg.defined THEN accessTokenThrew(st, [r0 EXCEPT !.nFetch = @ + 1])
    ELSE Outcome(st, [r0 EXCEPT !.pc = "ga_http", !.nFetch = @ + 1, !.nTokReq = @ + 1,
                                !.req = [grant_type |-> "refresh_token", code |-> <<>>,
                                         code_verifier |-> Null,
                                         refresh_token |-> st.refresh_token]])

\* common.ts 182-199: fetchAccessToken up to the request it sends; the emit of
\* line 177 follows the null it returns without a refresh token.
fetchAccessToken(st, r0, cfg) ==
    LET r == [r0 EXCEPT !.nFetch = @ + 1]
    IN
    IF ~Truthy(st.refresh_token) THEN accessTokenReturned(st, Emit(r, Null), Null)
    ELSE IF ~cfg.defined THEN accessTokenThrew(st, r)
    ELSE Outcome(st, [r EXCEPT !.pc = "ga_http", !.nTokReq = @ + 1,
                               !.req = [grant_type |-> "refresh_token", code |-> <<>>,
                                        code_verifier |-> Null,
                                        refresh_token |-> st.refresh_token]])

\* common.ts 163-176: getAccessToken up to its first await.
getAccessTokenBody(st, r0, cfg, force, t) ==
    LET st1 == removeAccessToken(st, force)
        r == [r0 EXCEPT !.nGet = @ + 1]
    IN  IF storedTokenValid(st1, t) THEN accessTokenReturned(st1, r, st1.access_token)
        ELSE fetchAccessToken(st1, r, cfg)

\* Mutant of getAccessToken: a single-flight guard; while another caller's refresh
\* request is in flight a call sends none and hands out what is stored.
getAccessTokenSingleFlight(p, force) ==
    /\ Idle(p)
    /\ LET r == [Started(p, "getAccessToken") EXCEPT !.force = force]
       IN  Apply(p, IF \E q \in Procs \ {p} : proc[q].pc = "ga_http"
                    THEN Outcome(storage, Return(r, storage.access_token))
                    ELSE getAccessTokenBody(storage, r, config, force, now))
    /\ UNCHANGED <<config, verifier, isAndroid, now>>

getAccessToken(p, force) ==
    /\ Idle(p)
    /\ Apply(p, getAccessTokenBody(storage, [Started(p, "getAccessToken") EXCEPT !.force = force],
                                   config, force, now))
    /\ UNCHANGED <<config, verifier, isAndroid, now>>

\* common.ts 200-207, then 177-179: the answer to the refresh exchange.
refreshDone(p, resp) ==
    /\ proc[p].pc = "ga_http"
    /\ LET r == [proc[p] EXCEPT !.http = [kind |-> resp.kind, status |-> resp.status]]
       IN  Apply(p,
             IF resp.kind = "fail" \/ ~resp.body.json THEN accessTokenThrew(storage, r)
             ELSE accessTokenReturned(
                    storeAccessToken(storeRefreshToken(storage, resp.body), resp.body, now),
                    Emit([r EXCEPT !.persisted = resp.body.refresh_token],
                         resp.body.access_token),
                    resp.body.access_token))
    /\ UNCHANGED <<config, verifier, isAndroid, now>>

\* common.ts 49-57
loggedIn(p) ==
    /\ Idle(p)
    /\ LET r == Started(p, "loggedIn")
       IN  Apply(p, IF storage.user_logged_in # Null
                    THEN Outcome(storage, Return(r, storage.user_logged_in))
                    ELSE getAccessTokenBody(storage, r, config, FALSE, now))
    /\ UNCHANGED <<config, verifier, isAndroid, now>>

\* common.ts 130-141
getUserInfo(p, force) ==
    /\ Idle(p)
    /\ LET r == [Started(p, "getUserInfo") EXCEPT !.force = force]
       IN  Apply(p,
             IF storage.user_info # Null /\ ~force
             THEN Outcome(storage, Return(r, parse(storage.user_info)))
             ELSE IF ~config.defined THEN Outcome(storage, Throw(r, "TypeError"))
             ELSE getAccessTokenBody(storage, r, config, FALSE, now))
    /\ UNCHANGED <<config, verifier, isAndroid, now>>

\* common.ts 145-157: the answer to the userinfo request.
userInfoDone(p, resp) ==
    /\ proc[p].pc = "ui_http"
    /\ Apply(p,
         CASE resp.kind = "fail" -> Outcome(storage, Throw(proc[p], "Error"))
           [] resp.status # 200 ->
                Outcome(storage, Throw(proc[p], "Failed to get the user's info"))
           [] OTHER ->
                Outcome([storage EXCEPT !.user_info = stringify(resp.user)],
                        Return(proc[p], resp.user)))
    /\ UNCHANGED <<config, verifier, isAndroid, now>>

\* ------------------------------------------------------------ specifications
\* One step of caller p.
Step(p) ==
    \/ \E cfg \in Configs, v \in getRandomValues : setUp(p, cfg, v)
    \/ \E json \in SetTokensInputs : setTokens(p, json)
    \/ \E h \in LoginHints : signIn(p, h, Null)
    \/ \E h \in LoginHints : signUp(p, h)
    \/ \E res \in BrowserResults : browserDone(p, res)
    \/ \E res \in BrowserResults : browser2Done(p, res)
    \/ \E resp \in TokenResponses : codeExchangeDone(p, resp)
    \/ logOut(p)
    \/ \E a \in {"yes", "no", "throw"} : logOutAvailable(p, a)
    \/ \E res \in LogOutResults : logOutBrowserDone(p, res)
    \/ \E f \in BOOLEAN : getAccessToken(p, f)
    \/ \E resp \in TokenResponses : refreshDone(p, resp)
    \/ loggedIn(p)
    \/ \E f \in BOOLEAN : getUserInfo(p, f)
    \/ \E resp \in UserInfoResponses : userInfoDone(p, resp)

\* One caller at a time: each call ends before the next one starts.
Next == Tick \/ \E p \in Callers : Step(p)

Spec == Init /\ [][Next]_vars

\* Several callers on the same instance, interleaved at the awaits.
NextConc == Tick \/ \E p \in Procs : Step(p)

SpecConc == Init /\ [][NextConc]_vars

\* ------------------------------------------------- failing storage steps
\* How a call of SecureStorage / ApplicationSettings can fail: it throws, or it
\* reports the failure in a return value that the code does not read.
FaultModes == {"throws", "ignored"}

\* Whether step j of a group is carried out when step k fails in mode `mode`:
\* a throw skips the steps after k, an ignored failure skips step k alone.
stepDone(j, k, mode) == IF mode = "throws" THEN j < k ELSE j # k

\* common.ts 333-337 with the k-th of the five removes failing.
ClearSteps == 1..5
clearStorageFault(st, k, mode) ==
    [refresh_token |-> IF stepDone(1, k, mode) THEN Null ELSE st.refresh_token,
     access_token |-> IF stepDone(2, k, mode) THEN Null ELSE st.access_token,
     access_token_expire |-> IF stepDone(3, k, mode) THEN NoNum
                             ELSE st.access_token_expire,
     user_info |-> IF stepDone(4, k, mode) THEN Null ELSE st.user_info,
     user_logged_in |-> IF stepDone(5, k, mode) THEN Null ELSE st.user_logged_in]

\* common.ts 118-127 with a failing clearStorage: a throw lands in the catch of
\* logOut, before the emit of line 338; an ignored failure goes unnoticed.
logOutClearFault(st, r, k, mode) ==
    IF mode = "throws" THEN logOutCatch(clearStorageFault(st, k, mode), r)
    ELSE Outcome(clearStorageFault(st, k, mode),
                 Return(Emit(r, clearStorageEmit), "true"))

\* logOutAvailable(p, "no") with the k-th remove failing.
logOutAvailableFault(p, k, mode) ==
    /\ proc[p].pc = "lo_avail"
    /\ Apply(p, logOutClearFault(storage,
                                 [proc[p] EXCEPT !.avail = "no", !.nUrlOpen = @ + 1],
                                 k, mode))
    /\ UNCHANGED <<config, verifier, isAndroid, now>>

\* logOutBrowserDone(p, res), res not a cancel, with the k-th remove failing.
logOutBrowserDoneFault(p, res, k, mode) ==
    /\ proc[p].pc = "lo_browser"
    /\ res.type \notin {"throw", "cancel"}
    /\ Apply(p, logOutClearFault(storage, [proc[p] EXCEPT !.br = res.type], k, mode))
    /\ UNCHANGED <<config, verifier, isAndroid, now>>

\* The writes of a token persist, in the order of common.ts 202 / 232-233:
\* 1 the refresh token (261), 2 the access token (245), 3 its expiry (249).
PersistSteps == 1..3

\* Whether the persist of `json` gets to write j at all (common.ts 238, 256).
persistWrites(json, j) ==
    IF j = 1 THEN Truthy(json.refresh_token) ELSE Truthy(json.access_token)

\* A token persist with its k-th write failing.
persistFault(st, json, t, k, mode) ==
    [st EXCEPT
       !.refresh_token = IF persistWrites(json, 1) /\ stepDone(1, k, mode)
                         THEN json.refresh_token ELSE @,
       !.access_token = IF persistWrites(json, 2) /\ stepDone(2, k, mode)
                        THEN json.access_token ELSE @,
       !.access_token_expire = IF persistWrites(json, 3) /\ stepDone(3, k, mode)
                               THEN expireDate(t, json.expires_in) ELSE @]

\* refreshDone(p, resp) with the k-th write of the persist failing: a throw lands
\* in the catch of fetchAccessToken (common.ts 205-207).
refreshDoneFault(p, resp, k, mode) ==
    /\ proc[p].pc = "ga_http"
    /\ resp.kind = "resp" /\ resp.body.json
    /\ persistWrites(resp.body, k)
    /\ LET r == [proc[p] EXCEPT !.http = [kind |-> resp.kind, status |-> resp.status]]
           st == persistFault(storage, resp.body, now, k, mode)
       IN  Apply(p,
             IF mode = "throws" THEN accessTokenThrew(st, r)
             ELSE accessTokenReturned(
                    st,
                    Emit([r EXCEPT !.persisted = resp.body.refresh_token],
                         resp.body.access_token),
                    resp.body.access_token))
    /\ UNCHANGED <<config, verifier, isAndroid, now>>

\* One step of caller p on a device whose storage can fail: the token and
\* log-out operations of a configured session, with and without a failing step.
StepFault(p) ==
    \/ \E v \in getRandomValues : setUp(p, ValidConfig, v)
    \/ \E json \in TokenSets : setTokens(p, json)
    \/ logOut(p)
    \/ \E a \in {"yes", "no", "throw"} : logOutAvailable(p, a)
    \/ \E res \in LogOutResults : logOutBrowserDone(p, res)
    \/ \E f \in BOOLEAN : getAccessToken(p, f)
    \/ \E resp \in TokenResponses : refreshDone(p, resp)
    \/ loggedIn(p)
    \/ \E k \in ClearSteps, mode \in FaultModes : logOutAvailableFault(p, k, mode)
    \/ \E res \in LogOutResults, k \in ClearSteps, mode \in FaultModes :
          logOutBrowserDoneFault(p, res, k, mode)
    \/ \E resp \in TokenResponses, k \in PersistSteps, mode \in FaultModes :
          refreshDoneFault(p, resp, k, mode)

NextFault == Tick \/ \E p \in Callers : StepFault(p)

SpecFault == Init /\ [][NextFault]_vars

\* -------------------------------------------------- two callers, interleaved
\* The answers of the token endpoint to a refresh request that the races below
\* draw from: a rotated token set, a token set without refresh token, a failure.
RaceResponses ==
    {resp \in TokenResponses :
        \/ resp.kind = "fail"
        \/ resp.status = 200 /\ resp.body.access_token = "a1"
              /\ resp.body.refresh_token = Undefined
        \/ resp.status = 200 /\ resp.body.access_token = "a2"
              /\ resp.body.refresh_token = "r2"}

\* One step of caller p of a configured session on which getAccessToken and
\* logOut are called from several places at once.
StepRefresh(p) ==
    \/ \E v \in getRandomValues : setUp(p, ValidConfig, v)
    \/ \E json \in TokenSets : setTokens(p, json)
    \/ logOut(p)
    \/ \E a \in {"yes", "no", "throw"} : logOutAvailable(p, a)
    \/ \E res \in LogOutResults : logOutBrowserDone(p, res)
    \/ \E f \in BOOLEAN : getAccessToken(p, f)
    \/ \E resp \in RaceResponses : refreshDone(p, resp)

NextRefresh == Tick \/ \E p \in Procs : StepRefresh(p)

SpecRefresh == Init /\ [][NextRefresh]_vars

\* One step of caller p of a configured session on which setUp is called again
\* (setUp(config).signIn(), README 44-48) while sign-ins are pending.
StepSignIn(p) ==
    \/ \E v \in getRandomValues : setUp(p, ValidConfig, v)
    \/ \E h \in LoginHints : signIn(p, h, Null)
    \/ \E h \in LoginHints : signUp(p, h)
    \/ \E res \in BrowserResults : browserDone(p, res)
    \/ \E res \in BrowserResults : browser2Done(p, res)
    \/ \E resp \in RaceResponses : codeExchangeDone(p, resp)

NextSignIn == Tick \/ \E p \in Procs : StepSignIn(p)

SpecSignIn == Init /\ [][NextSignIn]_vars

\* ------------------------------------------------------------------ claims
\* The five storage keys are all absent.
AllAbsent(st) ==
    /\ st.refresh_token = Null
    /\ st.access_token = Null
    /\ st.access_token_expire.tag = "absent"
    /\ st.user_info = Null
    /\ st.user_logged_in = Null

Raised(r) == r.pc = "idle" /\ r.ret.kind = "throw"
Returned(r, v) == r.pc = "idle" /\ r.ret = [kind |-> "return", val |-> v]

\* C1: whenever a step of signIn throws (the authorize URL cannot be built, the
\* browser session rejects, the code exchange fails in transport or answers with
\* a body that is not JSON), signIn raises in that step, and in every step in
\* which signIn raises all five storage keys are absent afterwards.
C1_SignInFailureClears ==
    [][\A p \in Procs :
         /\ \A h \in LoginHints :
              (proc'[p].op = "signIn" /\ signIn(p, h, Null)) =>
                /\ proc'[p].nOpen = 0 => Raised(proc'[p])
                /\ Raised(proc'[p]) => AllAbsent(storage')
         /\ \A res \in BrowserResults :
              (proc[p].op = "signIn" /\ proc'[p].br = res.type
                 /\ (browserDone(p, res) \/ browser2Done(p, res))) =>
                /\ res.type = "throw" => Raised(proc'[p])
                /\ Raised(proc'[p]) => AllAbsent(storage')
         /\ \A resp \in TokenResponses :
              (proc[p].op = "signIn" /\ proc[p].pc = "code_http"
                 /\ proc'[p].http.kind = resp.kind /\ codeExchangeDone(p, resp)) =>
                /\ (resp.kind = "fail" \/ ~resp.body.json) => Raised(proc'[p])
                /\ Raised(proc'[p]) => AllAbsent(storage')
      ]_vars

\* C1 witness: a signIn whose code exchange failed in transport has raised after
\* clearing the storage.
C1_Witness ==
    /\ proc["p1"].op = "signIn"
    /\ Raised(proc["p1"])
    /\ proc["p1"].nTokReq = 1
    /\ proc["p1"].http.kind = "fail"
    /\ proc["p1"].emits = <<"">>
    /\ AllAbsent(storage)

\* C2: when the logout browser session answers `success`, or the authenticator is
\* not available and the logout URL is opened externally, logOut returns true in
\* that step and all five storage keys are absent afterwards.
C2_LogOutClears ==
    [][\A p \in Procs :
         /\ (proc[p].pc = "lo_avail" /\ logOutAvailable(p, "no")) =>
              /\ Returned(proc'[p], "true")
              /\ proc'[p].nUrlOpen = 1 /\ proc'[p].nOpen = 0
              /\ AllAbsent(storage')
         /\ \A res \in LogOutResults :
              (res.type = "success" /\ proc[p].pc = "lo_browser"
                 /\ logOutBrowserDone(p, res)) =>
                /\ Returned(proc'[p], "true")
                /\ AllAbsent(storage')
      ]_vars

\* C2 witness: a logOut whose browser session answered `success` returned true.
C2_Witness ==
    /\ proc["p1"].op = "logOut"
    /\ proc["p1"].br = "success"
    /\ Returned(proc["p1"], "true")
    /\ AllAbsent(storage)

\* C3: when the authenticator is available and the logout browser session answers
\* `cancel`, logOut returns false; no step of that call (the call itself, the
\* opening of the session, the cancelled answer) changes any of the five storage
\* keys, and the call emits nothing on accessToken$.
C3_LogOutCancelUntouched ==
    [][\A p \in Procs :
         /\ (proc'[p].op = "logOut" /\ logOut(p)) =>
              storage' = storage /\ proc'[p].emits = <<>>
         /\ (proc[p].pc = "lo_avail" /\ logOutAvailable(p, "yes")) =>
              storage' = storage /\ proc'[p].emits = <<>> /\ proc'[p].pc = "lo_browser"
         /\ \A res \in LogOutResults :
              (res.type = "cancel" /\ proc[p].pc = "lo_browser"
                 /\ logOutBrowserDone(p, res)) =>
                /\ Returned(proc'[p], "false")
                /\ storage' = storage
                /\ proc'[p].emits = <<>>
      ]_vars

\* C3 witness: a cancelled logOut has returned false with tokens still stored.
C3_Witness ==
    /\ proc["p1"].op = "logOut"
    /\ proc["p1"].br = "cancel"
    /\ Returned(proc["p1"], "false")
    /\ storage.refresh_token # Null
    /\ storage.access_token # Null
    /\ storage.user_logged_in # Null

\* The stored access token has not expired: one is stored and now <= its expiry.
Unexpired ==
    /\ storage.access_token # Null
    /\ storage.access_token_expire.tag = "num"
    /\ now <= storage.access_token_expire.n

\* C4: getAccessToken() without force returns the stored access token, without
\* invoking the refresh exchange (fetchAccessToken) and without a token request,
\* exactly when an access token is stored and now <= its stored expiry; otherwise
\* it invokes the refresh exchange, which sends a refresh_token request for the
\* stored refresh token.  A token read from storage is handed out (returned, or
\* used as the bearer of getUserInfo) only while now <= its expiry, and never by
\* getAccessToken(force).
C4_StoredTokenOnlyUnexpired ==
    [][\A p \in Procs :
         /\ (proc'[p].op = "getAccessToken" /\ getAccessToken(p, FALSE)) =>
              /\ Unexpired =>
                   /\ Returned(proc'[p], storage.access_token)
                   /\ proc'[p].nFetch = 0 /\ proc'[p].nTokReq = 0
              /\ ~Unexpired =>
                   /\ proc'[p].nFetch = 1
                   /\ (storage.refresh_token # Null /\ config.defined) =>
                        /\ proc'[p].pc = "ga_http" /\ proc'[p].nTokReq = 1
                        /\ proc'[p].req.grant_type = "refresh_token"
                        /\ proc'[p].req.refresh_token = storage.refresh_token
         /\ (proc'[p].op = "getAccessToken" /\ getAccessToken(p, TRUE)) =>
              proc'[p].nFetch = 1
         /\ \A f \in BOOLEAN :
              (proc'[p].op = "getUserInfo" /\ getUserInfo(p, f)
                 /\ proc'[p].nUserReq = 1 /\ proc'[p].nFetch = 0) =>
                Unexpired /\ proc'[p].bearer = storage.access_token
      ]_vars

\* C4 witness: a getAccessToken() found a stored token past its expiry and has a
\* refresh request in flight.
C4_Witness ==
    /\ proc["p1"].op = "getAccessToken" /\ ~proc["p1"].force
    /\ proc["p1"].pc = "ga_http"
    /\ storage.access_token # Null
    /\ storage.access_token_expire.tag = "num"
    /\ now > storage.access_token_expire.n

\* C5: when no unexpired access token is stored (or force discards it) and no
\* refresh token is stored, getAccessToken returns null in its first step: it
\* does not raise and sends no request to the token endpoint.
C5_NoRefreshTokenGivesNull ==
    [][\A p \in Procs : \A f \in BOOLEAN :
         (proc'[p].op = "getAccessToken" /\ getAccessToken(p, f)
            /\ (f \/ ~Unexpired) /\ storage.refresh_token = Null) =>
           /\ Returned(proc'[p], Null)
           /\ proc'[p].nTokReq = 0
           /\ proc'[p].req.grant_type = "none"
      ]_vars

\* C5 witness: getAccessToken returned null with an expired access token and no
\* refresh token in storage.
C5_Witness ==
    /\ proc["p1"].op = "getAccessToken"
    /\ Returned(proc["p1"], Null)
    /\ proc["p1"].nTokReq = 0
    /\ storage.refresh_token = Null
    /\ storage.access_token # Null
    /\ storage.access_token_expire.tag = "num"
    /\ now > storage.access_token_expire.n

\* The stored refresh token after a persist of the token set `json`.
RefreshPersisted(json) ==
    /\ json.refresh_token \in {Undefined, ""} =>
         storage'.refresh_token = storage.refresh_token
    /\ json.refresh_token \notin {Undefined, ""} =>
         storage'.refresh_token = json.refresh_token
    /\ storage.refresh_token # Null => storage'.refresh_token \notin {Null, Undefined, ""}

\* C6: every persist of a token set (setTokens, the answer to the code exchange of
\* signIn / signUp, the answer to the refresh exchange) leaves the stored refresh
\* token unchanged when the set carries none (absent or empty), makes it the
\* set's refresh token when it carries one, and never replaces a stored refresh
\* token by an empty value.
C6_RefreshTokenPersist ==
    [][\A p \in Procs :
         /\ \A json \in SetTokensInputs :
              (proc'[p].op = "setTokens" /\ proc'[p].persisted = json.refresh_token
                 /\ setTokens(p, json)) => RefreshPersisted(json)
         /\ \A resp \in TokenResponses :
              (/\ proc[p].pc \in {"code_http", "ga_http"}
               /\ resp.kind = "resp" /\ resp.body.json
               /\ proc'[p].persisted = resp.body.refresh_token
               /\ (codeExchangeDone(p, resp) \/ refreshDone(p, resp))) =>
                RefreshPersisted(resp.body)
      ]_vars

\* C6 witness: a refresh exchange persisted a token set without a refresh token
\* and the stored refresh token is still there.
C6_Witness ==
    /\ proc["p1"].op = "getAccessToken"
    /\ proc["p1"].nTokReq = 1
    /\ proc["p1"].persisted = Undefined
    /\ Returned(proc["p1"], storage.access_token)
    /\ storage.refresh_token \in RefreshTokens

\* C7: loggedIn never raises.  With the cached flag present it returns the flag
\* without calling getAccessToken and without touching storage; otherwise it calls
\* getAccessToken, returns false when the refresh exchange throws, and writes the
\* flag only as true and only when getAccessToken produced a truthy token.
C7_LoggedInNeverRaises ==
    [][\A p \in Procs :
         /\ (proc'[p].op = "loggedIn" /\ loggedIn(p)) =>
              /\ ~Raised(proc'[p])
              /\ storage.user_logged_in # Null =>
                   /\ Returned(proc'[p], storage.user_logged_in)
                   /\ proc'[p].nGet = 0 /\ proc'[p].nFetch = 0 /\ proc'[p].nTokReq = 0
                   /\ storage' = storage
              /\ storage.user_logged_in = Null =>
                   /\ proc'[p].nGet = 1
                   /\ storage'.user_logged_in \in {Null, "true"}
                   /\ storage'.user_logged_in = "true" =>
                        Unexpired /\ Returned(proc'[p], "true")
         /\ \A resp \in TokenResponses :
              (proc[p].op = "loggedIn" /\ proc[p].pc = "ga_http" /\ refreshDone(p, resp)) =>
                /\ ~Raised(proc'[p])
                /\ (resp.kind = "fail" \/ ~resp.body.json) =>
                     Returned(proc'[p], "false") /\ storage' = storage
                /\ storage'.user_logged_in \in {storage.user_logged_in, "true"}
                /\ storage'.user_logged_in # storage.user_logged_in =>
                     /\ resp.kind = "resp" /\ resp.body.access_token \in AccessTokens
                     /\ Returned(proc'[p], "true")
      ]_vars

\* C7 witness: a loggedIn whose refresh exchange failed in transport returned
\* false and left the flag absent.
C7_Witness ==
    /\ proc["p1"].op = "loggedIn"
    /\ proc["p1"].nTokReq = 1
    /\ proc["p1"].http.kind = "fail"
    /\ Returned(proc["p1"], "false")
    /\ storage.user_logged_in = Null

\* C8 (as claimed): the code exchange ends in an error whenever the transport
\* fails or the token endpoint answers with a status outside 200..299, so signIn
\* does not return true after such an answer (stated here for a session with a
\* complete configuration).
C8_ExchangeFailsOnNon2xx ==
    [][\A p \in Procs : \A resp \in TokenResponses :
         (/\ config = ValidConfig
          /\ proc[p].op = "signIn" /\ proc[p].pc = "code_http"
          /\ codeExchangeDone(p, resp)
          /\ (resp.kind = "fail" \/ resp.status \notin 200..299)) =>
           Raised(proc'[p]) /\ ~Returned(proc'[p], "true")
      ]_vars

\* The browser results from which fetchCodeInAppBrowser gets no code: the user
\* cancels or dismisses, or the callback URL is missing or has nothing after "=".
NoCodeResults ==
    {res \in BrowserResults :
        \/ res.type \in {"cancel", "dismiss"}
        \/ res.type = "success" /\ res.url \in {NoUrl, UrlNoQuery, UrlEmptyCode}}

\* C9: when the browser step of signIn yields no code, signIn returns false in
\* that step, has sent no token request, has emitted nothing, and no step of the
\* call up to there (the call, the passwordless re-invocation, the answer) has
\* changed any of the five storage keys.
C9_SignInNoCodeNoEffect ==
    [][\A p \in Procs :
         /\ \A h \in LoginHints :
              (proc'[p].op = "signIn" /\ signIn(p, h, Null) /\ ~Raised(proc'[p])) =>
                storage' = storage /\ proc'[p].pc = "browser"
         /\ \A res \in BrowserResults :
              (proc[p].op = "signIn" /\ proc'[p].pc = "browser2" /\ browserDone(p, res)) =>
                storage' = storage /\ proc'[p].nTokReq = 0
         /\ \A res \in NoCodeResults :
              (proc[p].op = "signIn" /\ proc'[p].br = res.type
                 /\ (browserDone(p, res) \/ browser2Done(p, res))) =>
                /\ Returned(proc'[p], "false")
                /\ proc'[p].nTokReq = 0
                /\ proc'[p].emits = <<>>
                /\ storage' = storage
      ]_vars

\* C9 witness: a signIn cancelled in the browser returned false, with no token
\* request sent and the stored credentials still there.
C9_Witness ==
    /\ proc["p1"].op = "signIn"
    /\ proc["p1"].br = "cancel"
    /\ Returned(proc["p1"], "false")
    /\ proc["p1"].nTokReq = 0
    /\ storage.refresh_token # Null
    /\ storage.user_logged_in # Null

\* C10: when a step of signUp throws (the authorize URL cannot be built, a browser
\* session rejects, the code exchange fails in transport or answers with a body
\* that is not JSON), signUp raises in that step, and a step in which signUp
\* raises changes none of the five storage keys and emits nothing.
C10_SignUpFailureKeepsStorage ==
    [][\A p \in Procs :
         /\ \A h \in LoginHints :
              (proc'[p].op = "signUp" /\ signUp(p, h)) =>
                /\ proc'[p].nOpen = 0 => Raised(proc'[p])
                /\ storage' = storage /\ proc'[p].emits = <<>>
         /\ \A res \in BrowserResults :
              (proc[p].op = "signUp" /\ proc'[p].br = res.type
                 /\ (browserDone(p, res) \/ browser2Done(p, res))) =>
                /\ res.type = "throw" => Raised(proc'[p])
                /\ storage' = storage /\ proc'[p].emits = <<>>
         /\ \A resp \in TokenResponses :
              (proc[p].op = "signUp" /\ proc[p].pc = "code_http"
                 /\ proc'[p].http.kind = resp.kind /\ codeExchangeDone(p, resp)) =>
                /\ (resp.kind = "fail" \/ ~resp.body.json) => Raised(proc'[p])
                /\ Raised(proc'[p]) => storage' = storage /\ proc'[p].emits = <<>>
      ]_vars

\* C10 witness: a signUp whose code exchange failed in transport has raised and
\* the credentials stored before it are still there.
C10_Witness ==
    /\ proc["p1"].op = "signUp"
    /\ proc["p1"].http.kind = "fail"
    /\ Raised(proc["p1"])
    /\ storage.refresh_token # Null
    /\ storage.access_token # Null
    /\ storage.user_logged_in # Null

\* A field of the configuration is missing or empty.
Missing(x) == x \in {Null, Undefined, ""}

\* C11: when audience, clientId or redirectUri is missing or empty, signIn and
\* signUp raise in their first step, before any browser session is opened and
\* before any request is sent; when clientId or redirectUri is missing or empty,
\* logOut raises in its first step, before isAvailable, any browser session or
\* any external URL open, and leaves the five storage keys as they were.
C11_ConfigCheckedFirst ==
    [][\A p \in Procs :
         /\ \A h \in LoginHints :
              (/\ proc'[p].op \in {"signIn", "signUp"}
               /\ (signIn(p, h, Null) \/ signUp(p, h))
               /\ (Missing(config.audience) \/ Missing(config.clientId)
                     \/ Missing(config.redirectUri))) =>
                /\ Raised(proc'[p])
                /\ proc'[p].nOpen = 0 /\ proc'[p].nUrlOpen = 0
                /\ proc'[p].nTokReq = 0 /\ proc'[p].nUserReq = 0
         /\ (/\ proc'[p].op = "logOut" /\ logOut(p)
             /\ (Missing(config.clientId) \/ Missing(config.redirectUri))) =>
              /\ Raised(proc'[p])
              /\ proc'[p].avail = "none"
              /\ proc'[p].nOpen = 0 /\ proc'[p].nUrlOpen = 0
              /\ proc'[p].nTokReq = 0 /\ proc'[p].nUserReq = 0
              /\ storage' = storage
      ]_vars

\* C11 witness: with a configuration whose redirectUri is empty and credentials
\* in storage, a logOut has raised without asking for the browser.
C11_Witness ==
    /\ config.defined /\ config.redirectUri = ""
    /\ proc["p1"].op = "logOut"
    /\ Raised(proc["p1"])
    /\ proc["p1"].avail = "none" /\ proc["p1"].nOpen = 0 /\ proc["p1"].nUrlOpen = 0
    /\ storage.refresh_token # Null
    /\ storage.user_logged_in # Null

\* C12 (as claimed): building the authorize URL or the logout URL raises when any
\* of domain, clientId, audience, redirectUri is missing or empty (the logout URL
\* carries no audience), so a signIn, signUp or logOut called on a session
\* configured without a domain raises in its first step and opens no browser
\* session.
C12_DomainRequired ==
    [][\A p \in Procs : \A h \in LoginHints :
         (/\ proc'[p].op \in {"signIn", "signUp", "logOut"}
          /\ (signIn(p, h, Null) \/ signUp(p, h) \/ logOut(p))
          /\ (\/ Missing(config.domain) \/ Missing(config.clientId)
              \/ Missing(config.redirectUri)
              \/ (proc'[p].op # "logOut" /\ Missing(config.audience)))) =>
           /\ Raised(proc'[p])
           /\ proc'[p].nOpen = 0
      ]_vars

\* C13 (as claimed): setUp always completes: every call of setUp returns (the
\* instance), never raises, and leaves the session holding the given
\* configuration and the verifier just generated, whatever the pre-warm step
\* does with the authorize URL.
C13_SetUpNeverRaises ==
    [][\A p \in Procs : \A cfg \in Configs, v \in getRandomValues :
         (proc'[p].op = "setUp" /\ config' = cfg /\ verifier' = v /\ setUp(p, cfg, v)) =>
           /\ ~Raised(proc'[p])
           /\ Returned(proc'[p], "this")
      ]_vars

\* C14 (as claimed): getUserInfo(force) returns the cached user-info without any
\* request when a cache entry exists and force is false; otherwise the userinfo
\* request it sends carries an access token (never null or undefined); a non-200
\* answer raises and leaves the cached user-info as it was, a 200 answer caches
\* and returns the fetched value (stated here for a session with a complete
\* configuration).
C14_UserInfoWithValidToken ==
    [][\A p \in Procs :
         /\ \A f \in BOOLEAN :
              (config = ValidConfig /\ proc'[p].op = "getUserInfo" /\ getUserInfo(p, f)) =>
                /\ (storage.user_info # Null /\ ~f) =>
                     /\ Returned(proc'[p], parse(storage.user_info))
                     /\ proc'[p].nUserReq = 0 /\ proc'[p].nTokReq = 0
                /\ proc'[p].nUserReq = 1 => proc'[p].bearer \in AccessTokens
         /\ \A resp \in TokenResponses :
              (/\ config = ValidConfig
               /\ proc[p].op = "getUserInfo" /\ proc[p].pc = "ga_http"
               /\ refreshDone(p, resp)) =>
                (proc'[p].nUserReq = 1 => proc'[p].bearer \in AccessTokens)
         /\ \A resp \in UserInfoResponses :
              (config = ValidConfig /\ proc[p].pc = "ui_http" /\ userInfoDone(p, resp)) =>
                /\ (resp.kind = "resp" /\ resp.status # 200) =>
                     Raised(proc'[p]) /\ storage'.user_info = storage.user_info
                /\ (resp.kind = "resp" /\ resp.status = 200) =>
                     /\ Returned(proc'[p], resp.user)
                     /\ storage'.user_info = stringify(resp.user)
      ]_vars

\* What getAccessToken has just put on accessToken$ is an access token that a
\* refresh request of this call produced and that is now the stored one.
EmitsAreFreshTokens(r, st) ==
    \A i \in DOMAIN r.emits :
       /\ r.emits[i] \in AccessTokens
       /\ r.emits[i] = st.access_token
       /\ r.nTokReq = 1 /\ r.http.kind = "resp"

\* C15 (as claimed): every value getAccessToken emits on accessToken$ is the new
\* access token that a refresh exchange just produced and that has been
\* persisted; a getAccessToken that returns the stored unexpired token emits
\* nothing (stated here for a session with a complete configuration).
C15_EmitsOnlyFreshTokens ==
    [][\A p \in Procs :
         /\ \A f \in BOOLEAN :
              (/\ config = ValidConfig
               /\ proc'[p].op = "getAccessToken" /\ getAccessToken(p, f)) =>
                /\ EmitsAreFreshTokens(proc'[p], storage')
                /\ (Unexpired /\ ~f) => proc'[p].emits = <<>>
         /\ \A resp \in TokenResponses :
              (/\ config = ValidConfig
               /\ proc[p].op = "getAccessToken" /\ proc[p].pc = "ga_http"
               /\ refreshDone(p, resp)) =>
                EmitsAreFreshTokens(proc'[p], storage')
      ]_vars

\* The three keys of a token set.
TokenKeys(st) == <<st.refresh_token, st.access_token, st.access_token_expire>>

\* C16 (as claimed): the storage writes of a clear and of a token persist are
\* all-or-nothing, also when a storage step fails: a step that ends logOut leaves
\* the five keys either as they were or all absent, and a step that handles the
\* answer to a refresh exchange leaves the refresh token, the access token and
\* its expiry either as they were or as the complete persist of the answer
\* leaves them.
C16_AllOrNothing ==
    [][\A p \in Procs :
         /\ (proc[p].pc \in {"lo_avail", "lo_browser"} /\ proc'[p].pc = "idle") =>
              storage' = storage \/ AllAbsent(storage')
         /\ \A resp \in TokenResponses :
              (/\ proc[p].pc = "ga_http" /\ proc'[p].pc # "ga_http"
               /\ proc'[p].http = [kind |-> resp.kind, status |-> resp.status]
               /\ resp.kind = "resp" /\ resp.body.json
               /\ \/ refreshDone(p, resp)
                  \/ \E k \in PersistSteps, mode \in FaultModes :
                        refreshDoneFault(p, resp, k, mode)) =>
                \/ TokenKeys(storage') = TokenKeys(storage)
                \/ TokenKeys(storage') =
                     TokenKeys(storeAccessToken(storeRefreshToken(storage, resp.body),
                                                resp.body, now))
      ]_vars

\* C17: getAccessToken is not serialized.  Whatever the other callers are doing
\* (a refresh request of theirs in flight included), a getAccessToken that finds
\* no unexpired access token (or is forced) and finds a refresh token sends its
\* own refresh request for the stored refresh token; and every answer carrying
\* a token set is persisted and emitted in the step in which it arrives, so the
\* stored access token is the one of the answer that arrived last.
C17_RefreshNotSerialized ==
    [][\A p \in Procs :
         /\ \A f \in BOOLEAN :
              (/\ proc'[p].op = "getAccessToken" /\ getAccessToken(p, f)
               /\ (f \/ ~Unexpired) /\ storage.refresh_token # Null
               /\ config.defined) =>
                /\ proc'[p].pc = "ga_http" /\ proc'[p].nTokReq = 1
                /\ proc'[p].req.grant_type = "refresh_token"
                /\ proc'[p].req.refresh_token = storage.refresh_token
                /\ \A q \in Procs \ {p} : proc'[q] = proc[q]
         /\ \A resp \in RaceResponses :
              (/\ proc[p].op = "getAccessToken" /\ proc[p].pc = "ga_http"
               /\ resp.kind = "resp" /\ refreshDone(p, resp)) =>
                /\ storage'.access_token = resp.body.access_token
                /\ storage'.access_token_expire = Num(now + resp.body.expires_in.n)
                /\ RefreshPersisted(resp.body)
                /\ proc'[p].emits = <<resp.body.access_token>>
                /\ Returned(proc'[p], resp.body.access_token)
                /\ \A q \in Procs \ {p} : proc'[q] = proc[q]
      ]_vars

\* C17 witness: two getAccessToken calls have each sent a refresh request for the
\* same refresh token and both requests are in flight.
C17_Witness ==
    /\ \A p \in Procs :
         /\ proc[p].op = "getAccessToken" /\ proc[p].pc = "ga_http"
         /\ proc[p].nTokReq = 1
         /\ proc[p].req.grant_type = "refresh_token"
    /\ proc["p1"].req.refresh_token = proc["p2"].req.refresh_token

\* C18 (as claimed): in every interleaving, the code_verifier of a code exchange
\* in flight is the verifier from which the code_challenge of the authorize URL
\* that produced the code (the URL last handed to the browser by that call) was
\* derived.
C18_VerifierMatchesChallenge ==
    \A p \in Procs :
       proc[p].pc = "code_http" =>
         challengeOf(proc[p].req.code_verifier) = queryGet(proc[p].url, "code_challenge")

\* The refresh token, the access token and its expiry are absent.
TokensAbsent(st) ==
    /\ st.refresh_token = Null
    /\ st.access_token = Null
    /\ st.access_token_expire.tag = "absent"

\* C19 (as claimed): once a logOut has returned true and while the refresh token,
\* the access token and the expiry are still absent, only a step of a signIn,
\* signUp or setTokens call stores any of them; the answer to a refresh request
\* that was in flight when logOut cleared the storage does not.
C19_LoggedOutStaysLoggedOut ==
    [][(/\ \E q \in Procs : proc[q].op = "logOut" /\ Returned(proc[q], "true")
        /\ TokensAbsent(storage)
        /\ ~TokensAbsent(storage')) =>
          \E p \in Procs :
             \/ proc[p].op \in {"signIn", "signUp"} /\ proc[p].pc = "code_http"
                  /\ proc'[p].pc = "idle"
             \/ proc'[p].op = "setTokens"
                  /\ \E json \in SetTokensInputs : setTokens(p, json)
      ]_vars

\* C20 (as claimed): in every reachable state in which the cached logged-in flag
\* is present, the access token or the refresh token is present in storage.
C20_FlagImpliesToken ==
    storage.user_logged_in # Null =>
      storage.access_token # Null \/ storage.refresh_token # Null

====
